---- MODULE Spec2Model ----
(***************************************************************************)
(* A model of Bot.py: the per-game session (handle_game), the engine pool  *)
(* (get_engine / release_engine), the move decision pipeline               *)
(* (get_syzygy_move, get_polyglot_move, get_engine_move) and the time      *)
(* allocator (classic_ladder_think_time).                                  *)
(*                                                                         *)
(* Times are integers: remaining time in milliseconds as in the feed,      *)
(* think time in microseconds (0.05 s = 50000), so that the factors 0.04,  *)
(* 0.025, 0.25 and 0.18 of the source are exact.                           *)
(*                                                                         *)
(* The chess library is outside the repository.  A position is a starting  *)
(* arrangement plus the stack of moves pushed on it; a move is one of      *)
(* three kinds: "a" (quiet), "x" (capture: one piece fewer), "m" (a move   *)
(* that ends the game).  push_uci raises on a position that is over.       *)
(***************************************************************************)
EXTENDS Integers, Sequences, FiniteSets, TLC

VARIABLES
    engine_pool,        \* the Queue of idle engine handles (line 118)
    alive,              \* per engine handle: is its process running
    pc,                 \* per game thread: where handle_game is
    engine,             \* per game thread: the handle get_engine returned
    board,              \* per game thread: chess.Board
    move_history,       \* per game thread: the list of applied moves
    game_details,       \* per game thread: which side game_details gives the bot
    my_remaining_time,  \* per game thread: ms
    time_control,       \* per game thread: the (limit, increment) it was started with
    last,               \* per game thread: the last event and the calls it caused
    reported,           \* per game: the clocks the feed last reported (history, not read)
    dispatched,         \* per game: the turns a make_move succeeded in (history, not
                        \* read; kept where tracked is set)
    ladder,             \* one call of classic_ladder_think_time
    probe,              \* one call of get_syzygy_move
    listener            \* listen_for_challenges: its loop, game_time_controls, its last event

poolVars == <<engine_pool, alive>>
gameVars == <<pc, engine, board, move_history, game_details, my_remaining_time,
             time_control, last, reported, dispatched>>
\* what no step of handle_game changes
fnVars == <<ladder, probe, listener>>
vars == <<engine_pool, alive, pc, engine, board, move_history, game_details,
          my_remaining_time, time_control, last, reported, dispatched,
          ladder, probe, listener>>

Max2(a, b) == IF a >= b THEN a ELSE b
Min2(a, b) == IF a <= b THEN a ELSE b

(***************************************************************************)
(* Bounds of the model.                                                    *)
(***************************************************************************)
MaxMoves == 2
MaxProbe == 3
MaxTimeSteps == 12
TimeStepMs == 750

(***************************************************************************)
(* Constants of the program.                                               *)
(***************************************************************************)
ENGINE_POOL_SIZE == 2
TablebasePieces == 5
MinDrawFullmove == 30
DrawThreshold == 30
DefaultLimit == 300

(***************************************************************************)
(* The position (chess.Board), as far as handle_game reads it.             *)
(***************************************************************************)
NoMove == "none"
MoveKinds == {"a", "x", "m"}
STARTING_FEN == "startpos"
\* "startpos": the standard start.  "end6": six pieces, black to move, full move 29.
\* "invalid5": five pieces, parsed by chess.Board but not is_valid().
Fens == {"startpos", "end6"}

FenPieces(f) == IF f = "startpos" THEN 32 ELSE IF f = "end6" THEN 6 ELSE 5
FenTurn(f) == IF f = "end6" THEN "black" ELSE "white"
FenFullmove(f) == IF f = "end6" THEN 29 ELSE 1
FenValid(f) == f # "invalid5"

Other(c) == IF c = "white" THEN "black" ELSE "white"

NewBoard(f, c960) == [fen |-> f, chess960 |-> c960, stack |-> <<>>]

Turn(b) == IF Len(b.stack) % 2 = 0 THEN FenTurn(b.fen) ELSE Other(FenTurn(b.fen))

Captures(b) == Cardinality({i \in 1..Len(b.stack) : b.stack[i] = "x"})

PieceCount(b) == FenPieces(b.fen) - Captures(b)

IsValid(b) == FenValid(b.fen)

IsGameOver(b) == Len(b.stack) > 0 /\ b.stack[Len(b.stack)] = "m"

BlackMoves(b) ==
    IF FenTurn(b.fen) = "white" THEN Len(b.stack) \div 2 ELSE (Len(b.stack) + 1) \div 2

FullmoveNumber(b) == FenFullmove(b.fen) + BlackMoves(b)

\* push_uci(move) succeeds iff the move is legal in the position
CanPush(b, mv) == mv \in MoveKinds /\ ~IsGameOver(b) /\ (mv = "x" => PieceCount(b) > 2)

Push(b, mv) == [b EXCEPT !.stack = Append(@, mv)]

(***************************************************************************)
(* classic_ladder_think_time: ms and seconds in, microseconds out.         *)
(***************************************************************************)
LadderNoIncrement(time_left) ==
    IF time_left > 900000 THEN 30000000
    ELSE IF time_left > 600000 THEN 20000000
    ELSE IF time_left > 300000 THEN 10000000
    ELSE IF time_left > 180000 THEN 5000000
    ELSE IF time_left > 120000 THEN 2000000
    ELSE IF time_left > 90000 THEN 1200000
    ELSE IF time_left > 60000 THEN 800000
    ELSE IF time_left > 30000 THEN 500000
    ELSE IF time_left > 10000 THEN 200000
    ELSE IF time_left > 5000 THEN 100000
    ELSE 50000

classic_ladder_think_time(remaining_ms, increment) ==
    LET t0 == Max2(remaining_ms, 0)
        time_left == Max2(t0 - 2000, 50)
        think_time ==
            IF increment >= 3 THEN Min2(time_left * 40 + increment * 250000, 60000000)
            ELSE IF increment > 0 THEN Min2(time_left * 25 + increment * 180000, 10000000)
            ELSE LadderNoIncrement(time_left)
    IN  Max2(50000, Min2(think_time, 60000000))

(***************************************************************************)
(* get_syzygy_move.  tb is the tablebase as the call finds it: its state   *)
(* is "absent" (syzygy is None), "error" (probe_root raises) or "ok", and  *)
(* then entries is the sequence of (move, info) pairs probe_root yields,   *)
(* each [move, wdl, hasDtz, dtz] (hasDtz false: info.dtz() is None).       *)
(***************************************************************************)
SignedWdl(turn, e) == IF turn = "white" THEN e.wdl ELSE 0 - e.wdl

NegDtz(e) == IF e.hasDtz THEN 0 - e.dtz ELSE 0

Score(turn, e) == SignedWdl(turn, e) * 1000 + NegDtz(e)

\* line 145: if score > best_score (best_score starts at -inf)
Better(score, best) == ~best.has \/ score > best.score

RECURSIVE ProbeLoop(_, _, _, _)
ProbeLoop(turn, entries, i, best) ==
    IF i > Len(entries) THEN best
    ELSE LET score == Score(turn, entries[i])
         IN  IF Better(score, best)
             THEN ProbeLoop(turn, entries, i + 1,
                            [has |-> TRUE, score |-> score, move |-> entries[i].move])
             ELSE ProbeLoop(turn, entries, i + 1, best)

get_syzygy_move(b, tb) ==
    IF \/ tb.state = "absent"
       \/ PieceCount(b) # TablebasePieces
       \/ ~IsValid(b)
       \/ IsGameOver(b)
    THEN NoMove
    ELSE IF tb.state = "error" THEN NoMove
    ELSE ProbeLoop(Turn(b), tb.entries, 1,
                   [has |-> FALSE, score |-> 0, move |-> NoMove]).move

(***************************************************************************)
(* get_polyglot_move.  book_cache is a sequence of readers; a reader whose *)
(* find_all raises has state "error", else "ok" with entries [move,weight].*)
(***************************************************************************)
RECURSIVE BookEntries(_, _)
BookEntries(book, r) ==
    IF r > Len(book) THEN <<>>
    ELSE (IF book[r].state = "ok" THEN book[r].entries ELSE <<>>) \o BookEntries(book, r + 1)

RECURSIVE BookLoop(_, _, _)
BookLoop(entries, i, best) ==
    IF i > Len(entries) THEN best
    ELSE IF entries[i].weight > best.weight
         THEN BookLoop(entries, i + 1, [weight |-> entries[i].weight, move |-> entries[i].move])
         ELSE BookLoop(entries, i + 1, best)

get_polyglot_move(b, book) ==
    BookLoop(BookEntries(book, 1), 1, [weight |-> 0 - 1, move |-> NoMove]).move

(***************************************************************************)
(* The engine pool and the game threads.                                   *)
(***************************************************************************)
\* one game more than there are engines, so that a game can find the pool empty
NumGames == ENGINE_POOL_SIZE + 1
Games == 1..NumGames
Workers == 1..ENGINE_POOL_SIZE

TerminalStatuses == {"mate", "resign", "draw", "outoftime"}

\* what one turn of the event loop leaves behind: the event and the calls made for it
NoLast == [type |-> "none", fen |-> STARTING_FEN, variant |-> "standard", moves |-> <<>>,
           status |-> "started", applied |-> 0, stages |-> <<>>, sent |-> NoMove,
           ok |-> FALSE, think |-> 0, draw |-> "none", chat |-> FALSE,
           analysis |-> [kind |-> "none", cp |-> 0], evaluated |-> FALSE, calls |-> <<>>,
           fromSelf |-> FALSE, matched |-> FALSE, routed |-> FALSE,
           remaining |-> 0, ply |-> 0, called |-> FALSE]

\* no clock of that colour was in any event yet
NoReport == 0 - 1

InitPool ==
    /\ engine_pool = [i \in 1..ENGINE_POOL_SIZE |-> i]
    /\ alive = [w \in Workers |-> TRUE]

InitLocals ==
    /\ pc = [s \in Games |-> "idle"]
    /\ engine = [s \in Games |-> 0]
    /\ board = [s \in Games |-> NewBoard(STARTING_FEN, FALSE)]
    /\ move_history = [s \in Games |-> <<>>]
    /\ game_details = [s \in Games |-> "none"]
    /\ my_remaining_time = [s \in Games |-> 0]
    /\ time_control = [s \in Games |-> [limit |-> DefaultLimit, increment |-> 0]]
    /\ last = [s \in Games |-> NoLast]
    /\ reported = [s \in Games |-> [white |-> NoReport, black |-> NoReport]]

InitGames ==
    /\ InitLocals
    /\ dispatched = [s \in Games |-> [tracked |-> FALSE, once |-> {}, again |-> {}]]

\* the games a challenge or a gameStart event may name
GameIds == {"g1", "g2"}

NoTc == [known |-> FALSE, limit |-> 0, increment |-> 0]

NoListenerEvent == [type |-> "none", failed |-> FALSE, acceptCalls |-> 0, accepted |-> FALSE]

\* listen_for_challenges before its first event: game_time_controls = {}
InitListener ==
    listener = [running |-> TRUE,
                game_time_controls |-> [g \in GameIds |-> NoTc],
                last |-> NoListenerEvent]

InitFns ==
    /\ InitListener
    /\ ladder = [ms |-> 0, inc |-> 0, done |-> FALSE, out |-> 0]
    /\ probe = [b |-> NewBoard(STARTING_FEN, FALSE),
                tb |-> [state |-> "absent", entries |-> <<>>],
                done |-> FALSE, out |-> NoMove]

\* listen_for_challenges, gameStart: a thread running handle_game is started
StartGame(s, tc) ==
    /\ pc[s] = "idle"
    /\ pc' = [pc EXCEPT ![s] = "waiting"]
    /\ time_control' = [time_control EXCEPT ![s] = tc]
    /\ UNCHANGED <<poolVars, engine, board, move_history, game_details,
                   my_remaining_time, last, reported, dispatched, fnVars>>

\* get_engine without the removal: the handle is read but left in the queue
get_engine_peek == [handle |-> Head(engine_pool), rest |-> engine_pool]

\* get_engine: Queue.get, which blocks while the queue is empty
get_engine == [handle |-> Head(engine_pool), rest |-> Tail(engine_pool)]

\* handle_game up to the event loop
Checkout(s) ==
    /\ pc[s] = "waiting"
    /\ engine_pool # <<>>
    /\ engine_pool' = get_engine.rest
    /\ engine' = [engine EXCEPT ![s] = get_engine.handle]
    /\ pc' = [pc EXCEPT ![s] = "running"]
    /\ board' = [board EXCEPT ![s] = NewBoard(STARTING_FEN, FALSE)]
    /\ my_remaining_time' = [my_remaining_time EXCEPT ![s] = time_control[s].limit * 1000]
    /\ move_history' = [move_history EXCEPT ![s] = <<>>]
    /\ game_details' = [game_details EXCEPT ![s] = "none"]
    /\ UNCHANGED <<alive, time_control, last, reported, dispatched, fnVars>>

\* the engine process dies by itself
EngineCrash(w) ==
    /\ alive[w]
    /\ alive' = [alive EXCEPT ![w] = FALSE]
    /\ UNCHANGED <<engine_pool, gameVars, fnVars>>

\* the finally block: engine.quit(), then release_engine(engine).  quit() on a
\* handle whose process is gone may raise (quitRaises), and then nothing is released.
Finally(s, quitRaises) ==
    /\ pc[s] = "exiting"
    /\ quitRaises => ~alive[engine[s]]
    /\ alive' = [alive EXCEPT ![engine[s]] = FALSE]
    /\ pc' = [pc EXCEPT ![s] = "done"]
    /\ IF quitRaises
       THEN UNCHANGED <<engine_pool, engine>>
       ELSE /\ engine_pool' = Append(engine_pool, engine[s])
            /\ engine' = [engine EXCEPT ![s] = 0]
    /\ UNCHANGED <<board, move_history, game_details, my_remaining_time,
                   time_control, last, reported, dispatched, fnVars>>

(***************************************************************************)
(* One turn of the event loop of handle_game.                              *)
(***************************************************************************)
\* the loops at lines 214-218 and 224-229: push each move, skip one that raises
RECURSIVE PushEach(_, _, _, _)
PushEach(b, h, moves, i) ==
    IF i > Len(moves) THEN [board |-> b, history |-> h]
    ELSE IF CanPush(b, moves[i])
         THEN PushEach(Push(b, moves[i]), Append(h, moves[i]), moves, i + 1)
         ELSE PushEach(b, h, moves, i + 1)

\* lines 205-218 without the new chess.Board: the moves are pushed on the position held
ApplyGameFullKeep(b, h, variant, fen, moves) ==
    [board |-> PushEach(b, <<>>, moves, 1).board, history |-> moves]

\* lines 205-218: the position and the move list are rebuilt from the event; the
\* position b and the list h held before are dropped
ApplyGameFull(b, h, variant, fen, moves) ==
    LET b0 == IF variant = "Chess960" THEN NewBoard(fen, TRUE)
                                      ELSE NewBoard(STARTING_FEN, FALSE)
    IN  [board |-> PushEach(b0, <<>>, moves, 1).board, history |-> moves]

\* lines 221-229 without the slice: every move of the list is pushed again
ApplyGameStateAll(b, h, gd, moves) ==
    IF moves # <<>> /\ gd # "none" THEN PushEach(b, h, moves, 1)
    ELSE [board |-> b, history |-> h]

\* lines 221-229: the moves past len(move_history) are pushed
ApplyGameState(b, h, gd, moves) ==
    IF moves # <<>> /\ gd # "none" THEN PushEach(b, h, moves, Len(h) + 1)
    ELSE [board |-> b, history |-> h]

\* lines 231-242: the clock of the side to move replaces my_remaining_time
ClockUpdate(b, mt, limit, wtime, btime) ==
    LET c == IF Turn(b) = "white" THEN wtime ELSE btime
    IN  IF c.kind = "int" THEN c.ms
        ELSE IF c.kind = "bad" THEN limit * 1000
        ELSE mt

\* get_engine_move: engine.play raises on a dead engine; answer is what a live one returns
get_engine_move(engineAlive, answer) == IF engineAlive THEN answer ELSE NoMove

TablebaseStage(b, tb) ==
    IF PieceCount(b) = TablebasePieces
    THEN <<[stage |-> "tablebase", move |-> get_syzygy_move(b, tb)]>>
    ELSE <<>>

Found(stages) == stages # <<>> /\ stages[Len(stages)].move # NoMove

\* lines 298-304 without the first "if move is None": the book is asked although the
\* tablebase gave a move
PipelineBookAlways(b, tb, book, engineAlive, answer) ==
    LET s1 == TablebaseStage(b, tb)
        s2 == Append(s1, [stage |-> "book", move |-> get_polyglot_move(b, book)])
    IN  IF Found(s2) THEN s2
        ELSE Append(s2, [stage |-> "engine", move |-> get_engine_move(engineAlive, answer)])

\* lines 298-304: the stages asked, in order, each with what it returned
Pipeline(b, tb, book, engineAlive, answer) ==
    LET s1 == TablebaseStage(b, tb)
        s2 == IF Found(s1) THEN s1
              ELSE Append(s1, [stage |-> "book", move |-> get_polyglot_move(b, book)])
    IN  IF Found(s2) THEN s2
        ELSE Append(s2, [stage |-> "engine", move |-> get_engine_move(engineAlive, answer)])

NoTb == [state |-> "absent", entries |-> <<>>]

EntryMoves(entries) == {entries[i].move : i \in 1..Len(entries)}

\* the lookups and the engine return moves that are legal in the position they are given
LegalTb(b, tb) == EntryMoves(tb.entries) \subseteq {m \in MoveKinds : CanPush(b, m)}
LegalBook(b, book) == EntryMoves(BookEntries(book, 1)) \subseteq {m \in MoveKinds : CanPush(b, m)}
LegalAnswer(b, answer) == answer = NoMove \/ CanPush(b, answer)

\* the clock of an event as a report of the feed: a value, or none
Report(old, clock) == IF clock.kind \in {"int", "datetime"} THEN clock.ms ELSE old

\* an event with the clocks wtime and btime has been read
Reports(s, wtime, btime) ==
    reported' = [reported EXCEPT ![s] = [white |-> Report(@.white, wtime),
                                         black |-> Report(@.black, btime)]]

\* the locals of handle_game after an event, and the turns moved in
Commit(s, ev, b, h, gd, mt, p) ==
    /\ dispatched' =
          IF dispatched[s].tracked /\ ev.sent # NoMove /\ ev.ok
          THEN [dispatched EXCEPT ![s] =
                  [tracked |-> TRUE,
                   once |-> @.once \cup {ev.ply},
                   again |-> IF ev.ply \in @.once THEN @.again \cup {ev.ply} ELSE @.again]]
          ELSE dispatched
    /\ board' = [board EXCEPT ![s] = b]
    /\ move_history' = [move_history EXCEPT ![s] = h]
    /\ game_details' = [game_details EXCEPT ![s] = gd]
    /\ my_remaining_time' = [my_remaining_time EXCEPT ![s] = mt]
    /\ last' = [last EXCEPT ![s] = ev]
    /\ pc' = [pc EXCEPT ![s] = p]
    /\ UNCHANGED <<poolVars, engine, time_control, fnVars>>

\* lines 305-313 without "if move": make_move is called whatever the pipeline gave
DispatchBlind(b, move, sendOk) ==
    [called |-> TRUE, pushed |-> sendOk /\ CanPush(b, move)]

\* lines 305-313 with the push outside the try: the move is pushed although
\* make_move raised
DispatchPushAlways(b, move, sendOk) ==
    [called |-> move # NoMove, pushed |-> move # NoMove /\ CanPush(b, move)]

\* lines 305-313.  called: make_move is called; pushed: it returned and the move is
\* pushed on the position and appended to move_history (sendOk: make_move succeeds)
Dispatch(b, move, sendOk) ==
    [called |-> move # NoMove, pushed |-> move # NoMove /\ sendOk /\ CanPush(b, move)]

\* lines 279-291: game_details names the bot as a player and that side is to move
OwnTurn(b, gd) == gd \in {"white", "black"} /\ Turn(b) = gd

\* lines 275-317: the status check, the turn check, the pipeline, make_move.
\* oracles: what the pipeline may meet, should it be asked
TurnStep(s, ev, b, h, gd, mt, oracles) ==
    IF ev.status \in TerminalStatuses THEN Commit(s, ev, b, h, gd, mt, "exiting")
    ELSE IF ~OwnTurn(b, gd) THEN Commit(s, ev, b, h, gd, mt, "running")
    ELSE \E o \in oracles :
        LET stages == Pipeline(b, o.tb, o.book, alive[engine[s]], o.answer)
            move == stages[Len(stages)].move
            think == classic_ladder_think_time(mt, time_control[s].increment)
            d == Dispatch(b, move, o.sendOk)
            pushed == d.pushed
            ev2 == [ev EXCEPT !.stages = stages, !.sent = move,
                              !.ok = o.sendOk, !.think = think,
                              !.remaining = mt, !.ply = Len(b.stack),
                              !.called = d.called]
        IN  /\ LegalTb(b, o.tb) /\ LegalBook(b, o.book) /\ LegalAnswer(b, o.answer)
            /\ PieceCount(b) # TablebasePieces => o.tb = NoTb
            /\ Found(TablebaseStage(b, o.tb)) => o.book = <<>>
            /\ Found(Pipeline(b, o.tb, o.book, FALSE, NoMove)) => o.answer = NoMove
            /\ move = NoMove => ~o.sendOk
            /\ Commit(s, ev2, IF pushed THEN Push(b, move) ELSE b,
                      IF pushed THEN Append(h, move) ELSE h, gd, mt, "running")

\* line 200 without the test of the sender: every chat line goes to the router
ChatReplyAll(fromSelf, matched) == [routed |-> TRUE, posted |-> matched]

\* lines 200-201 and 41-56.  routed: handle_chat_commands is called; posted:
\* post_message is called (matched: the text matches COMMAND_REGEX)
ChatReply(fromSelf, matched) == [routed |-> ~fromSelf, posted |-> ~fromSelf /\ matched]

\* lines 195-202: the chat line is answered, then continue
ChatLine(s, fromSelf, matched) ==
    /\ pc[s] = "running"
    /\ UNCHANGED reported
    /\ LET r == ChatReply(fromSelf, matched)
       IN  Commit(s, [NoLast EXCEPT !.type = "chatLine", !.chat = r.posted,
                                    !.fromSelf = fromSelf, !.matched = matched,
                                    !.routed = r.routed],
                  board[s], move_history[s], game_details[s], my_remaining_time[s],
                  "running")

\* lines 204-218, then 275-317.  side: the colour game_details gives the bot;
\* wtime, btime: the clocks in the state of the event, which the branch does not read
GameFull(s, variant, fen, moves, wtime, btime, side, status, oracles) ==
    /\ pc[s] = "running"
    /\ LET r == ApplyGameFull(board[s], move_history[s], variant, fen, moves)
           ev == [NoLast EXCEPT !.type = "gameFull", !.variant = variant, !.fen = fen,
                                !.moves = moves, !.status = status,
                                !.applied = Len(r.board.stack)]
       IN  /\ Reports(s, wtime, btime)
           /\ TurnStep(s, ev, r.board, r.history, side, my_remaining_time[s], oracles)

\* lines 220-242, then 275-317
GameState(s, moves, wtime, btime, status, oracles) ==
    /\ pc[s] = "running"
    /\ LET r == ApplyGameState(board[s], move_history[s], game_details[s], moves)
           mt == ClockUpdate(r.board, my_remaining_time[s], time_control[s].limit,
                             wtime, btime)
           ev == [NoLast EXCEPT !.type = "gameState", !.moves = moves, !.status = status,
                                !.applied = Len(r.board.stack) - Len(board[s].stack)]
       IN  /\ Reports(s, wtime, btime)
           /\ TurnStep(s, ev, r.board, r.history, game_details[s], mt, oracles)

\* lines 256-260: the score from the point of view of the side to move; analysis.cp
\* is the score of info["score"] seen from white
SideScore(b, analysis) == IF Turn(b) = "white" THEN analysis.cp ELSE 0 - analysis.cp

\* lines 246-272 without the test of line 246: an early offer is evaluated as well
DrawReplyNoFloor(b, analysis, callOk) ==
    LET accept == analysis.kind = "cp" /\ SideScore(b, analysis) <= DrawThreshold
        first == IF analysis.kind = "raise" THEN <<>>
                 ELSE IF accept THEN <<"accept_draw">> ELSE <<"decline_draw">>
    IN  [evaluated |-> TRUE,
         calls |-> IF analysis.kind # "raise" /\ callOk THEN first
                   ELSE Append(first, "decline_draw"),
         accepted |-> accept /\ callOk]

\* lines 246-272: what an offer is answered with.  analysis: what engine.analyse
\* gives ("cp", "mate", or it raises); callOk: the first call to the server succeeds.
\* evaluated: engine.analyse was called; calls: the calls made to the server, in
\* order (a call that raises inside the try is followed by decline_draw, line 270)
DrawReply(b, analysis, callOk) ==
    IF FullmoveNumber(b) < MinDrawFullmove
    THEN [evaluated |-> FALSE, calls |-> <<"decline_draw">>, accepted |-> FALSE]
    ELSE LET accept == analysis.kind = "cp" /\ SideScore(b, analysis) <= DrawThreshold
             first == IF analysis.kind = "raise" THEN <<>>
                      ELSE IF accept THEN <<"accept_draw">> ELSE <<"decline_draw">>
         IN  [evaluated |-> TRUE,
              calls |-> IF analysis.kind # "raise" /\ callOk THEN first
                        ELSE Append(first, "decline_draw"),
              accepted |-> accept /\ callOk]

\* lines 244-273: break after an accepted offer, continue otherwise.  engine.analyse
\* on an engine whose process is gone raises
OfferDraw(s, analysis, callOk) ==
    /\ pc[s] = "running"
    /\ UNCHANGED reported
    /\ alive[engine[s]] \/ analysis.kind = "raise" \/ FullmoveNumber(board[s]) < MinDrawFullmove
    /\ LET r == DrawReply(board[s], analysis, callOk)
           ev == [NoLast EXCEPT !.type = "offerDraw",
                                !.draw = IF r.accepted THEN "accept" ELSE "decline",
                                !.analysis = IF r.evaluated THEN analysis ELSE @,
                                !.evaluated = r.evaluated,
                                !.calls = r.calls]
       IN  Commit(s, ev, board[s], move_history[s], game_details[s], my_remaining_time[s],
                  IF r.accepted THEN "exiting" ELSE "running")

\* an event of any other type: lines 275-317 only
OtherEvent(s, status, oracles) ==
    /\ pc[s] = "running"
    /\ UNCHANGED reported
    /\ TurnStep(s, [NoLast EXCEPT !.type = "other", !.status = status],
                board[s], move_history[s], game_details[s], my_remaining_time[s], oracles)

\* the feed ends, or the stream or the handling of an event raises: on to finally
StreamStops(s, why) ==
    /\ pc[s] = "running"
    /\ pc' = [pc EXCEPT ![s] = "exiting"]
    /\ last' = [last EXCEPT ![s] = [NoLast EXCEPT !.type = why]]
    /\ UNCHANGED <<poolVars, engine, board, move_history, game_details,
                   my_remaining_time, time_control, reported, dispatched, fnVars>>

(***************************************************************************)
(* The inputs.  A feed is the set of events a game thread may be sent and  *)
(* of answers its calls may get.                                           *)
(***************************************************************************)
RECURSIVE SeqsUpTo(_, _)
SeqsUpTo(S, n) ==
    IF n = 0 THEN {<<>>}
    ELSE LET shorter == SeqsUpTo(S, n - 1)
         IN  shorter \cup {Append(q, x) : q \in {t \in shorter : Len(t) = n - 1}, x \in S}

Entry(m, w, d) == [move |-> m, wdl |-> w, hasDtz |-> TRUE, dtz |-> d]

\* the remaining times the feed reports in the model, ms
WhiteClockMs == 20000
BlackClockMs == 40000

NoClock == [kind |-> "none", ms |-> 0]
Clocks(ms) == {NoClock, [kind |-> "datetime", ms |-> ms], [kind |-> "bad", ms |-> 0],
               [kind |-> "int", ms |-> ms]}

\* the arrangements a gameFull event names: (variant, initialFen)
Arrangements == {<<"standard", STARTING_FEN>>} \cup {<<"Chess960", f>> : f \in Fens}

Oracles(tbs, books, answers) ==
    [tb : tbs, book : books, answer : answers, sendOk : BOOLEAN]

OneEngineOracles == Oracles({NoTb}, {<<>>}, {NoMove, "a", "m"})

\* every list of quiet and game-ending moves, the engine alone
SyncFeed ==
    [arrangements |-> Arrangements,
     lists |-> SeqsUpTo({"a", "m"}, MaxMoves),
     sides |-> {"white", "black", "other"},
     statuses |-> {"started", "mate"},
     wtimes |-> {NoClock}, btimes |-> {NoClock},
     analyses |-> {[kind |-> "cp", cp |-> DrawThreshold]},
     oracles |-> OneEngineOracles,
     tcs |-> {[limit |-> DefaultLimit, increment |-> 0]}]

\* no moves, and the bot is no player of the game: the life of the thread alone
PoolFeed ==
    [arrangements |-> {<<"standard", STARTING_FEN>>},
     lists |-> {<<>>},
     sides |-> {"other"},
     statuses |-> {"started", "mate"},
     wtimes |-> {NoClock}, btimes |-> {NoClock},
     analyses |-> {[kind |-> "raise", cp |-> 0]},
     oracles |-> OneEngineOracles,
     tcs |-> {[limit |-> DefaultLimit, increment |-> 0]}]

Init == InitPool /\ InitGames /\ InitFns

GameNext(s, F) ==
    \/ \E tc \in F.tcs : StartGame(s, tc)
    \/ Checkout(s)
    \/ \E fromSelf \in BOOLEAN, matched \in BOOLEAN : ChatLine(s, fromSelf, matched)
    \/ \E arr \in F.arrangements, moves \in F.lists, wtime \in F.wtimes,
          btime \in F.btimes, side \in F.sides, status \in F.statuses :
            GameFull(s, arr[1], arr[2], moves, wtime, btime, side, status, F.oracles)
    \/ \E moves \in F.lists, wtime \in F.wtimes, btime \in F.btimes,
          status \in F.statuses :
            GameState(s, moves, wtime, btime, status, F.oracles)
    \/ \E analysis \in F.analyses, callOk \in BOOLEAN : OfferDraw(s, analysis, callOk)
    \/ \E status \in F.statuses : OtherEvent(s, status, F.oracles)
    \/ \E why \in {"end", "error"} : StreamStops(s, why)
    \/ \E quitRaises \in BOOLEAN : Finally(s, quitRaises)

Next ==
    \/ GameNext(1, SyncFeed)
    \/ \E w \in Workers : engine[1] = w /\ EngineCrash(w)

Spec == Init /\ [][Next]_vars

NextPool ==
    \/ \E s \in Games : GameNext(s, PoolFeed)
    \/ \E w \in Workers : EngineCrash(w)

SpecPool == Init /\ [][NextPool]_vars

\* the one event of a game that is sent its gameFull event and nothing yet
FirstFullFeed ==
    [arrangements |-> Arrangements,
     lists |-> SeqsUpTo({"a", "m"}, MaxMoves),
     sides |-> {"other"},
     statuses |-> {"started"},
     oracles |-> OneEngineOracles,
     tcs |-> {[limit |-> DefaultLimit, increment |-> 0]}]

\* a game played as white to its end
PairFeed ==
    [arrangements |-> Arrangements,
     lists |-> SeqsUpTo({"a", "m"}, MaxMoves),
     sides |-> {"white"},
     statuses |-> {"started"},
     wtimes |-> {NoClock}, btimes |-> {NoClock},
     analyses |-> {[kind |-> "cp", cp |-> DrawThreshold]},
     oracles |-> OneEngineOracles,
     tcs |-> {[limit |-> DefaultLimit, increment |-> 0]}]

FirstFull(s, F) ==
    /\ last[s].type = "none"
    /\ \E arr \in F.arrangements, moves \in F.lists, side \in F.sides,
          status \in F.statuses :
            GameFull(s, arr[1], arr[2], moves, NoClock, NoClock, side, status, F.oracles)

\* Two games.  Game 1 is started first and is sent its gameFull event; game 2 is
\* started after that and is sent any events.
NextPair ==
    \/ \E tc \in FirstFullFeed.tcs : StartGame(1, tc)
    \/ Checkout(1)
    \/ FirstFull(1, FirstFullFeed)
    \/ last[1].type = "gameFull" /\ GameNext(2, PairFeed)

SpecPair == Init /\ [][NextPair]_vars

\* short games from the six-piece ending, every lookup
PipelineFeed ==
    [arrangements |-> {<<"Chess960", "end6">>},
     lists |-> SeqsUpTo({"a", "x"}, 1),
     sides |-> {"white", "black"},
     statuses |-> {"started", "mate"},
     wtimes |-> {NoClock}, btimes |-> {NoClock},
     analyses |-> {[kind |-> "cp", cp |-> DrawThreshold]},
     oracles |-> Oracles({NoTb, [state |-> "error", entries |-> <<>>],
                          [state |-> "ok", entries |-> <<>>],
                          [state |-> "ok", entries |-> <<Entry("a", 0, 0)>>],
                          [state |-> "ok", entries |-> <<Entry("a", 0, 0), Entry("x", 2, 1)>>]},
                         {<<>>, <<[state |-> "error", entries |-> <<>>]>>,
                          <<[state |-> "ok", entries |-> <<[move |-> "a", weight |-> 1]>>]>>,
                          <<[state |-> "error", entries |-> <<>>],
                            [state |-> "ok", entries |-> <<[move |-> "a", weight |-> 1],
                                                          [move |-> "x", weight |-> 2]>>]>>},
                         {NoMove, "a", "x"}),
     tcs |-> {[limit |-> DefaultLimit, increment |-> 0]}]

NextPipeline ==
    \/ GameNext(1, PipelineFeed)
    \/ \E w \in Workers : engine[1] = w /\ EngineCrash(w)

SpecPipeline == Init /\ [][NextPipeline]_vars

\* what engine.analyse may give: a score in centipawns seen from white, a mate, a failure
Analyses ==
    {[kind |-> "cp", cp |-> c] : c \in {0 - 500, DrawThreshold, DrawThreshold + 1, 500}}
    \cup {[kind |-> "mate", cp |-> 0], [kind |-> "raise", cp |-> 0]}

\* draw offers early (full move 1, 2, 29) and late (full move 30), either side to move
DrawFeed ==
    [arrangements |-> Arrangements,
     lists |-> SeqsUpTo({"a"}, MaxMoves),
     sides |-> {"white", "black"},
     statuses |-> {"started", "mate"},
     wtimes |-> {NoClock}, btimes |-> {NoClock},
     analyses |-> Analyses,
     oracles |-> OneEngineOracles,
     tcs |-> {[limit |-> DefaultLimit, increment |-> 0]}]

NextDraw ==
    \/ GameNext(1, DrawFeed)
    \/ \E w \in Workers : engine[1] = w /\ EngineCrash(w)

SpecDraw == Init /\ [][NextDraw]_vars

\* the clocks of the two sides, as numbers, as datetime values, unreadable or absent
ClockFeed ==
    [arrangements |-> {<<"standard", STARTING_FEN>>},
     lists |-> SeqsUpTo({"a"}, MaxMoves),
     sides |-> {"white", "black"},
     statuses |-> {"started"},
     wtimes |-> Clocks(WhiteClockMs) \ {[kind |-> "bad", ms |-> 0]},
     btimes |-> Clocks(BlackClockMs) \ {NoClock, [kind |-> "datetime", ms |-> BlackClockMs]},
     analyses |-> {[kind |-> "raise", cp |-> 0]},
     oracles |-> Oracles({NoTb}, {<<>>}, {NoMove, "a"}),
     tcs |-> {[limit |-> DefaultLimit, increment |-> 0]}]

NextClock ==
    \/ GameNext(1, ClockFeed)
    \/ \E w \in Workers : engine[1] = w /\ EngineCrash(w)

SpecClock == Init /\ [][NextClock]_vars

\* a game of quiet moves, events repeated and replayed at will
TurnsFeed ==
    [arrangements |-> {<<"standard", STARTING_FEN>>},
     lists |-> SeqsUpTo({"a"}, MaxMoves),
     sides |-> {"white", "black"},
     statuses |-> {"started"},
     wtimes |-> {NoClock}, btimes |-> {NoClock},
     analyses |-> {[kind |-> "raise", cp |-> 0]},
     oracles |-> Oracles({NoTb}, {<<>>}, {NoMove, "a"}),
     tcs |-> {[limit |-> DefaultLimit, increment |-> 0]}]

\* as Init, and the turns moved in are recorded
InitTurns ==
    /\ InitPool /\ InitLocals /\ InitFns
    /\ dispatched = [s \in Games |-> [tracked |-> TRUE, once |-> {}, again |-> {}]]

NextTurns ==
    \/ GameNext(1, TurnsFeed)
    \/ \E w \in Workers : engine[1] = w /\ EngineCrash(w)

SpecTurns == InitTurns /\ [][NextTurns]_vars

(***************************************************************************)
(* listen_for_challenges.  Nothing in its loop is inside a try but the     *)
(* accept_challenge call, and that catches berserk's ResponseError only:   *)
(* any other exception leaves the function, which is the main thread.      *)
(***************************************************************************)
ChallengeVariants == {"standard", "atomic"}
ChallengeLimits == {60, 600}
ChallengeIncrements == {0, 2}
AcceptResults == {"ok", "ResponseError", "otherError"}

\* every challenge event: wellFormed is false for an event without its "challenge" or
\* "id" key, or with a field of a type the code does not expect
Challenges ==
    [id : GameIds, wellFormed : {TRUE}, variant : ChallengeVariants, rated : BOOLEAN,
     limit : ChallengeLimits, increment : ChallengeIncrements, fromBot : BOOLEAN,
     accept : AcceptResults]
    \cup [id : GameIds, wellFormed : {FALSE}, variant : {"standard"}, rated : {FALSE},
          limit : {60}, increment : {0}, fromBot : {FALSE}, accept : {"ok"}]

\* lines 343-358: the tests that end the handling of a challenge before accept_challenge
Declined(c) ==
    \/ c.variant \notin {"standard", "chess960"}
    \/ c.rated
    \/ ~(30 <= c.limit /\ c.limit <= 300 /\ c.increment <= 0)
    \/ c.fromBot

\* line 352: the time control is stored once variant and rated have passed
Stored(c) == c.variant \in {"standard", "chess960"} /\ ~c.rated

\* lines 359-363: accept_challenge raises past the except clause
AcceptRaises(result) == result = "otherError"

\* lines 338-363
Challenge(c) ==
    /\ listener.running
    /\ LET raises == ~c.wellFormed \/ (~Declined(c) /\ AcceptRaises(c.accept))
           called == c.wellFormed /\ ~Declined(c)
       IN  listener' =
             [running |-> ~raises,
              game_time_controls |->
                  IF c.wellFormed /\ Stored(c)
                  THEN [listener.game_time_controls EXCEPT
                          ![c.id] = [known |-> TRUE, limit |-> c.limit,
                                     increment |-> c.increment]]
                  ELSE listener.game_time_controls,
              last |-> [type |-> "challenge",
                        failed |-> ~c.wellFormed \/ (called /\ c.accept # "ok"),
                        acceptCalls |-> IF called THEN 1 ELSE 0,
                        accepted |-> called /\ c.accept = "ok"]]
    /\ UNCHANGED <<poolVars, gameVars, ladder, probe>>

\* line 368: game_time_controls.get(game_id, (300, 0))
LookupTc(g) ==
    IF listener.game_time_controls[g].known
    THEN [limit |-> listener.game_time_controls[g].limit,
          increment |-> listener.game_time_controls[g].increment]
    ELSE [limit |-> DefaultLimit, increment |-> 0]

\* lines 365-369: a thread running handle_game is started for the game
ListenGameStart(g, s) == listener.running /\ StartGame(s, LookupTc(g))

\* lines 365-366 for an event without event["game"]["id"]: KeyError
BadGameStart ==
    /\ listener.running
    /\ listener' = [listener EXCEPT !.running = FALSE,
                                    !.last = [NoListenerEvent EXCEPT !.type = "gameStart",
                                                                     !.failed = TRUE]]
    /\ UNCHANGED <<poolVars, gameVars, ladder, probe>>

NextListen ==
    \/ \E c \in Challenges : Challenge(c)
    \/ \E g \in GameIds, s \in Games : ListenGameStart(g, s)
    \/ BadGameStart

SpecListen == Init /\ [][NextListen]_vars

(***************************************************************************)
(* The pure functions, each called once on inputs drawn by Init.           *)
(***************************************************************************)
LadderThresholds == {0, 50, 5000, 10000, 30000, 60000, 90000, 120000, 180000,
                     300000, 600000, 900000}

RemainingSamples ==
    {k * TimeStepMs : k \in 0..MaxTimeSteps}
    \cup {2000 + t + d : t \in LadderThresholds, d \in {0, 1}}

IncrementSamples == {0 - 1, 0, 1, 2, 3, 30}

InitTime ==
    /\ InitPool /\ InitGames /\ InitListener
    /\ probe = [b |-> NewBoard(STARTING_FEN, FALSE), tb |-> NoTb,
                done |-> FALSE, out |-> NoMove]
    /\ ladder \in [ms : RemainingSamples, inc : IncrementSamples, done : {FALSE}, out : {0}]

LadderCall ==
    /\ ~ladder.done
    /\ ladder' = [ladder EXCEPT !.done = TRUE,
                                !.out = classic_ladder_think_time(ladder.ms, ladder.inc)]
    /\ UNCHANGED <<poolVars, gameVars, probe, listener>>

SpecTime == InitTime /\ [][LadderCall]_vars

\* five pieces, white to move; the same, black to move
Board5w == Push(NewBoard("end6", TRUE), "x")
Board5b == Push(Board5w, "a")

ProbeMoves == <<"m1", "m2", "m3", "m4", "m5">>
WdlVals == {0 - 1, 0, 1, 2}
DtzVals == {0 - 499, 499, 1001}
ProbeInfos == [wdl : WdlVals, hasDtz : {TRUE}, dtz : DtzVals]
              \cup [wdl : WdlVals, hasDtz : {FALSE}, dtz : {0}]

Named(infos) ==
    [i \in 1..Len(infos) |-> [move |-> ProbeMoves[i], wdl |-> infos[i].wdl,
                              hasDtz |-> infos[i].hasDtz, dtz |-> infos[i].dtz]]

ProbeLists == {Named(q) : q \in SeqsUpTo(ProbeInfos, MaxProbe)}

InitSyzygy ==
    /\ InitPool /\ InitGames /\ InitListener
    /\ ladder = [ms |-> 0, inc |-> 0, done |-> FALSE, out |-> 0]
    /\ \/ probe \in [b : {Board5w, Board5b}, tb : [state : {"ok"}, entries : ProbeLists],
                      done : {FALSE}, out : {NoMove}]
       \/ probe \in [b : {Board5w, NewBoard("end6", TRUE), NewBoard("invalid5", TRUE),
                          Push(Board5w, "m")},
                      tb : {NoTb, [state |-> "error", entries |-> <<>>],
                            [state |-> "ok", entries |-> Named(<<[wdl |-> 2, hasDtz |-> TRUE,
                                                                 dtz |-> 1]>>)]},
                      done : {FALSE}, out : {NoMove}]

SyzygyCall ==
    /\ ~probe.done
    /\ probe' = [probe EXCEPT !.done = TRUE, !.out = get_syzygy_move(probe.b, probe.tb)]
    /\ UNCHANGED <<poolVars, gameVars, ladder, listener>>

SpecSyzygy == InitSyzygy /\ [][SyzygyCall]_vars

(***************************************************************************)
(* The claims.                                                             *)
(***************************************************************************)
Holders(w) == {s \in Games : engine[s] = w}
Idle == {engine_pool[i] : i \in 1..Len(engine_pool)}
CheckedOut == {s \in Games : engine[s] # 0}

\* C1: over any interleaving of the game threads, no engine handle is held by two
\* threads at once or held while it sits idle in the pool, at most ENGINE_POOL_SIZE
\* handles are checked out and not yet released, and a thread is past get_engine
\* only with a handle of its own: while the pool is empty a waiting thread cannot
\* check out.
C1_PoolExclusive ==
    /\ \A w \in Workers : Cardinality(Holders(w)) <= 1
    /\ \A w \in Workers : Holders(w) # {} => w \notin Idle
    /\ Cardinality(CheckedOut) <= ENGINE_POOL_SIZE
    /\ \A s \in Games : pc[s] \in {"running", "exiting"} => engine[s] \in Workers
    /\ \A s \in Games : pc[s] \in {"idle", "waiting"} => engine[s] = 0
    /\ \A s \in Games : pc[s] = "waiting" /\ engine_pool = <<>> => ~ENABLED Checkout(s)

\* C1, witness: both handles are checked out and a third thread waits in get_engine
C1_Witness ==
    \E s \in Games :
        /\ pc[s] = "waiting"
        /\ engine_pool = <<>>
        /\ Cardinality({t \in Games : pc[t] = "running"}) = ENGINE_POOL_SIZE

\* C2: the handle get_engine hands to a thread is never one whose process is dead.
C2_LiveAtCheckout ==
    [][\A s \in Games : pc[s] = "waiting" /\ pc'[s] = "running" => alive'[engine'[s]]]_vars

\* C3: a thread that has left handle_game, on whatever path, has put its handle
\* back; once every started thread has left, the pool holds ENGINE_POOL_SIZE handles.
C3_ReturnedOnExit ==
    /\ \A s \in Games : pc[s] = "done" => engine[s] = 0
    /\ (\A s \in Games : pc[s] \in {"idle", "done"}) => Len(engine_pool) = ENGINE_POOL_SIZE

\* the bot's own move of the last turn, if make_move succeeded and it was pushed
OwnPushed(s) == IF last[s].sent # NoMove /\ last[s].ok THEN 1 ELSE 0

\* the position and the move list as the last event left them, before the bot's move
PosAfterApply(s) ==
    [board[s] EXCEPT !.stack = SubSeq(@, 1, Len(@) - OwnPushed(s))]
HistoryAfterApply(s) ==
    SubSeq(move_history[s], 1, Len(move_history[s]) - OwnPushed(s))

LastN(q, n) == SubSeq(q, Len(q) - n + 1, Len(q))

RECURSIVE AllLegal(_, _)
AllLegal(b, moves) ==
    moves = <<>> \/ (CanPush(b, Head(moves)) /\ AllLegal(Push(b, Head(moves)), Tail(moves)))

\* C4: once game_details is set, a gameState event whose list is no longer than
\* move_history pushes nothing; one whose list is longer, its further moves legal,
\* pushes exactly the moves past len(move_history), each once and in order, on the
\* position and on move_history.
C4_DeltaAppliesSuffixOnce ==
    \A s \in Games :
        last[s].type = "gameState" /\ game_details[s] # "none" =>
            LET moves == last[s].moves
                h == HistoryAfterApply(s)
                st == PosAfterApply(s).stack
                n0 == Len(h) - last[s].applied
                suffix == SubSeq(moves, n0 + 1, Len(moves))
                b0 == [board[s] EXCEPT !.stack = SubSeq(st, 1, Len(st) - last[s].applied)]
            IN  /\ last[s].applied >= 0 /\ n0 >= 0
                /\ Len(moves) <= n0 => last[s].applied = 0
                /\ Len(moves) > n0 /\ AllLegal(b0, suffix) =>
                      /\ last[s].applied = Len(suffix)
                      /\ LastN(h, Len(suffix)) = suffix
                      /\ LastN(st, Len(suffix)) = suffix

\* C4, witness: one move was applied before, the event lists two, the second is pushed
C4_Witness ==
    \E s \in Games :
        /\ last[s].type = "gameState" /\ game_details[s] # "none"
        /\ Len(last[s].moves) = 2 /\ last[s].applied = 1
        /\ Len(HistoryAfterApply(s)) = 2

SameSnapshot(s, t) ==
    /\ last[s].type = "gameFull" /\ last[t].type = "gameFull"
    /\ last[s].variant = last[t].variant
    /\ last[s].fen = last[t].fen
    /\ last[s].moves = last[t].moves

\* C5: two game threads whose last event is the same gameFull snapshot hold, right
\* after it, the same position and the same move list, whatever either was sent
\* before (one of them nothing, the other any events, the same snapshot among them).
C5_SnapshotFromScratch ==
    \A s, t \in Games :
        SameSnapshot(s, t) =>
            /\ PosAfterApply(s) = PosAfterApply(t)
            /\ HistoryAfterApply(s) = HistoryAfterApply(t)

\* C5, witness: both games hold the same snapshot of two moves, and game 2, which
\* plays white, has already answered it with a move of its own
C5_Witness ==
    /\ SameSnapshot(1, 2)
    /\ last[1].variant = "Chess960"
    /\ last[1].moves = <<"a", "a">>
    /\ OwnPushed(2) = 1

Consulted(s) == last[s].stages # <<>>

\* C6: the pipeline is asked in a turn only if, after the event, the side to move is
\* the bot's colour and the position is not over.
C6_PipelineOnlyOnLiveOwnTurn ==
    \A s \in Games :
        Consulted(s) =>
            /\ Turn(PosAfterApply(s)) = game_details[s]
            /\ ~IsGameOver(PosAfterApply(s))

\* C7: after an event with a terminal status the thread has left the loop, has sent
\* no move for that event, and, once it has ended, has put its handle back.
C7_TerminalStatusEnds ==
    \A s \in Games :
        last[s].status \in TerminalStatuses =>
            /\ pc[s] \in {"exiting", "done"}
            /\ last[s].sent = NoMove /\ ~Consulted(s)
            /\ pc[s] = "done" => engine[s] = 0

StageRank(name) == IF name = "tablebase" THEN 1 ELSE IF name = "book" THEN 2 ELSE 3

\* C8: in every turn that asks the pipeline the stages asked are in the order
\* tablebase, book, engine; the tablebase is asked iff the position has five pieces,
\* the book iff the tablebase gave no move, the engine iff neither gave one; and the
\* move handed to make_move is the move of the first stage that gave one.
C8_HighestStageWins ==
    \A s \in Games :
        Consulted(s) =>
            LET st == last[s].stages
                names == {st[i].stage : i \in 1..Len(st)}
                gave(n) == \E i \in 1..Len(st) : st[i].stage = n /\ st[i].move # NoMove
            IN  /\ \A i, j \in 1..Len(st) : i < j => StageRank(st[i].stage) < StageRank(st[j].stage)
                /\ "tablebase" \in names <=> PieceCount(PosAfterApply(s)) = TablebasePieces
                /\ "book" \in names <=> ~gave("tablebase")
                /\ "engine" \in names <=> ~gave("tablebase") /\ ~gave("book")
                /\ \A i \in 1..Len(st) : st[i].move # NoMove => last[s].sent = st[i].move
                /\ last[s].sent = st[Len(st)].move

\* C8, witness: the tablebase gave nothing, the book gave a move, and it was sent
C8_Witness ==
    \E s \in Games :
        /\ Len(last[s].stages) = 2
        /\ last[s].stages[1] = [stage |-> "tablebase", move |-> NoMove]
        /\ last[s].stages[2].stage = "book"
        /\ last[s].sent # NoMove /\ last[s].ok

Eligible == probe.done /\ probe.tb.state = "ok" /\ PieceCount(probe.b) = TablebasePieces
            /\ IsValid(probe.b) /\ ~IsGameOver(probe.b)

\* the WDL class of a candidate, seen from the side to move
ClassOf(e) == IF Turn(probe.b) = "white" THEN e.wdl ELSE 0 - e.wdl
ProbeScore(e) == ClassOf(e) * 1000 - (IF e.hasDtz THEN e.dtz ELSE 0)

Chosen == {i \in 1..Len(probe.tb.entries) : probe.tb.entries[i].move = probe.out}

HasWinAndDraw ==
    /\ \E i \in 1..Len(probe.tb.entries) : ClassOf(probe.tb.entries[i]) >= 1
    /\ \E i \in 1..Len(probe.tb.entries) : ClassOf(probe.tb.entries[i]) = 0

DtzBelow(n) ==
    \A i \in 1..Len(probe.tb.entries) :
        probe.tb.entries[i].dtz < n /\ probe.tb.entries[i].dtz > 0 - n

\* C9: with a win-class and a draw-class candidate, the move chosen is of
\* the win class, whatever the distance-to-zero values.
C9_WinOverDrawAnyDtz ==
    Eligible /\ HasWinAndDraw =>
        \A i \in Chosen : ClassOf(probe.tb.entries[i]) >= 1

\* C9, with the distances bounded: for either side to move the move chosen is the first candidate of
\* the greatest score; with a win-class and a draw-class candidate, and every
\* distance-to-zero value below 500 in magnitude, it is of the win class.
C9_WinOverDrawSmallDtz ==
    Eligible =>
        /\ probe.tb.entries # <<>> => Cardinality(Chosen) = 1
        /\ \A i \in Chosen : \A j \in 1..Len(probe.tb.entries) :
              /\ ProbeScore(probe.tb.entries[j]) <= ProbeScore(probe.tb.entries[i])
              /\ j < i => ProbeScore(probe.tb.entries[j]) < ProbeScore(probe.tb.entries[i])
        /\ HasWinAndDraw /\ DtzBelow(500) =>
              \A i \in Chosen : ClassOf(probe.tb.entries[i]) >= 1

\* C9, witness: black to move, a draw first, then two wins of equal score: the
\* first of the two is chosen
C9_Witness ==
    /\ Eligible /\ Turn(probe.b) = "black"
    /\ Len(probe.tb.entries) = 3
    /\ ClassOf(probe.tb.entries[1]) = 0
    /\ ClassOf(probe.tb.entries[2]) = 1
    /\ ProbeScore(probe.tb.entries[2]) = ProbeScore(probe.tb.entries[3])
    /\ DtzBelow(500)
    /\ probe.out = probe.tb.entries[2].move

\* C10: the think time is at most the remaining time less the two-second buffer,
\* or the floor of 0.05 s if that is more.
C10_ThinkTimeLeavesBuffer ==
    ladder.done => ladder.out <= Max2(ladder.ms - 2000, 50) * 1000

\* C11: with a positive increment the think time is strictly greater than the think
\* time for the same remaining time and no increment.
C11_IncrementRaisesThinkTime ==
    ladder.done /\ ladder.inc > 0 =>
        ladder.out > classic_ladder_think_time(ladder.ms, 0)

Offered(s) == last[s].type = "offerDraw"

\* the score of the analysis from the point of view of the bot's colour
BotScore(s) ==
    IF game_details[s] = "white" THEN last[s].analysis.cp ELSE 0 - last[s].analysis.cp

\* C12: a draw offer at a full-move number below 30 is answered with decline_draw
\* and nothing else, engine.analyse is not called, the offer is not accepted, and the
\* thread stays in its event loop.
C12_EarlyOfferDeclined ==
    \A s \in Games :
        Offered(s) /\ FullmoveNumber(board[s]) < MinDrawFullmove =>
            /\ last[s].calls = <<"decline_draw">>
            /\ ~last[s].evaluated
            /\ last[s].draw = "decline"
            /\ pc[s] = "running"

\* C12, witness: an offer at full move 29 with the engine alive is declined
C12_Witness ==
    \E s \in Games :
        /\ Offered(s) /\ FullmoveNumber(board[s]) = MinDrawFullmove - 1
        /\ alive[engine[s]]
        /\ last[s].calls = <<"decline_draw">>

\* C13: a draw offer at a full-move number of 30 or more whose evaluation is a
\* score, no mate, of at most 30 centipawns (30 included) is answered with
\* accept_draw; once that call has succeeded the thread leaves its loop, sends no
\* move and, once it has ended, has put its handle back; after a declined offer the
\* thread stays in its event loop.
C13_LateOfferAccepted ==
    \A s \in Games :
        Offered(s) =>
            /\ (/\ last[s].evaluated
                /\ last[s].analysis.kind = "cp"
                /\ SideScore(board[s], last[s].analysis) <= DrawThreshold)
               => /\ last[s].calls[1] = "accept_draw"
                  /\ last[s].draw = "accept" =>
                        /\ pc[s] \in {"exiting", "done"}
                        /\ last[s].sent = NoMove
                        /\ pc[s] = "done" => engine[s] = 0
            /\ last[s].draw = "decline" => pc[s] = "running"

\* C14: an offer is declined whenever the evaluation, seen from the bot's colour, is
\* a mate or above 30 centipawns, whichever side is to move; accept_draw is never
\* called in such a position.
C14_NoDrawWhenAhead ==
    \A s \in Games :
        /\ Offered(s) /\ last[s].evaluated
        /\ game_details[s] \in {"white", "black"}
        /\ last[s].analysis.kind = "mate"
           \/ (last[s].analysis.kind = "cp" /\ BotScore(s) > DrawThreshold)
        => /\ last[s].calls[1] = "decline_draw"
           /\ \A i \in 1..Len(last[s].calls) : last[s].calls[i] # "accept_draw"

\* C15: after a challenge or gameStart event whose handling fails (a missing or
\* malformed field, any failure of accept_challenge) the listener loop is still
\* running, and accept_challenge was called at most once for the event.
C15_ListenerSurvives ==
    listener.last.failed => listener.running /\ listener.last.acceptCalls <= 1

\* C16: handling a chat line changes neither the position, the move list, the
\* remaining time, the bot's colour nor the state of the thread, and asks for no
\* move; a line sent by the bot itself is not given to handle_chat_commands, and a
\* text that matches no command posts nothing.
C16_ChatLineFrame ==
    /\ [](\A s \in Games :
            last[s].type = "chatLine" =>
                /\ last[s].fromSelf => ~last[s].routed /\ ~last[s].chat
                /\ ~last[s].matched => ~last[s].chat
                /\ last[s].stages = <<>> /\ last[s].sent = NoMove
                /\ pc[s] = "running")
    /\ [][\A s \in Games :
            last'[s].type = "chatLine" =>
                /\ board'[s] = board[s]
                /\ move_history'[s] = move_history[s]
                /\ my_remaining_time'[s] = my_remaining_time[s]
                /\ game_details'[s] = game_details[s]
                /\ pc'[s] = pc[s]]_vars

\* C16, witness: the bot is to move, and a command of the opponent is answered
C16_Witness ==
    \E s \in Games :
        /\ last[s].type = "chatLine" /\ last[s].chat /\ ~last[s].fromSelf
        /\ move_history[s] # <<>>
        /\ OwnTurn(board[s], game_details[s])

\* C17: whenever classic_ladder_think_time is asked, the remaining time passed is the
\* value the feed last reported for the bot's colour, this event included, or the
\* initial limit if it has reported none.
C17_OwnLatestClock ==
    \A s \in Games :
        Consulted(s) =>
            LET own == IF game_details[s] = "white" THEN reported[s].white
                       ELSE reported[s].black
            IN  last[s].remaining = IF own = NoReport THEN time_control[s].limit * 1000
                                    ELSE own

NoneGave(s) ==
    Consulted(s) /\ \A i \in 1..Len(last[s].stages) : last[s].stages[i].move = NoMove

\* the events that reach the turn detection of lines 279-291
TurnEvent(s) ==
    /\ last[s].type \in {"gameFull", "gameState", "other"}
    /\ last[s].status \notin TerminalStatuses

\* C18: when no stage of the pipeline gives a move on the bot's turn, make_move is
\* not called, the position and the move list stay as the event left them, and the
\* thread stays in its loop; the pipeline is asked again at every later event after
\* which it is the bot's turn, and at no other.
C18_NoCandidateNoMove ==
    /\ [](\A s \in Games :
            /\ NoneGave(s) =>
                  /\ ~last[s].called /\ last[s].sent = NoMove
                  /\ pc[s] = "running"
            /\ TurnEvent(s) =>
                  (Consulted(s) <=> OwnTurn(PosAfterApply(s), game_details[s]))
            /\ ~TurnEvent(s) => ~Consulted(s))
    /\ [][\A s \in Games :
            NoneGave(s)' =>
                LET applied ==
                        IF last'[s].type = "gameFull"
                        THEN ApplyGameFull(board[s], move_history[s], last'[s].variant,
                                           last'[s].fen, last'[s].moves)
                        ELSE IF last'[s].type = "gameState"
                        THEN ApplyGameState(board[s], move_history[s], game_details[s],
                                            last'[s].moves)
                        ELSE [board |-> board[s], history |-> move_history[s]]
                IN  /\ board'[s] = applied.board
                    /\ move_history'[s] = applied.history]_vars

\* C18, witness: five pieces, the tablebase, the book and a live engine all give
\* nothing, and the thread is still in its loop
C18_Witness ==
    \E s \in Games :
        /\ NoneGave(s) /\ Len(last[s].stages) = 3
        /\ alive[engine[s]]
        /\ pc[s] = "running"

\* game thread s has taken the step
Changed(s) ==
    <<pc[s], board[s], move_history[s], game_details[s], my_remaining_time[s], last[s]>>'
        # <<pc[s], board[s], move_history[s], game_details[s], my_remaining_time[s], last[s]>>

IsPrefix(p, q) == Len(p) <= Len(q) /\ SubSeq(q, 1, Len(p)) = p

\* what the event of the step leaves of the position and the list held before it
EventApplied(s) ==
    IF last'[s].type = "gameFull"
    THEN ApplyGameFull(board[s], move_history[s], last'[s].variant, last'[s].fen,
                       last'[s].moves)
    ELSE IF last'[s].type = "gameState"
    THEN ApplyGameState(board[s], move_history[s], game_details[s], last'[s].moves)
    ELSE [board |-> board[s], history |-> move_history[s]]

\* C19: in a turn in which make_move is called the chosen move is pushed on the
\* position once if the call succeeded and not at all if it failed, and after a
\* failed call the thread stays in its loop; a later gameFull event of legal moves
\* leaves the position and the list equal to the event's list, and so does a
\* gameState event whose list extends the local list by legal moves.
C19_MoveAppliedAtMostOnce ==
    /\ [](\A s \in Games :
            /\ last[s].called /\ ~last[s].ok => pc[s] = "running"
            /\ (last[s].type = "gameFull"
                 /\ AllLegal(NewBoard(PosAfterApply(s).fen, PosAfterApply(s).chess960),
                             last[s].moves))
               => /\ PosAfterApply(s).stack = last[s].moves
                  /\ HistoryAfterApply(s) = last[s].moves)
    /\ [][\A s \in Games :
            Changed(s) /\ last'[s].called =>
                LET own == IF last'[s].ok THEN <<last'[s].sent>> ELSE <<>>
                IN  /\ board'[s].stack = EventApplied(s).board.stack \o own
                    /\ move_history'[s] = EventApplied(s).history \o own]_vars
    /\ [][\A s \in Games :
            (/\ Changed(s) /\ last'[s].type = "gameState" /\ game_details[s] # "none"
             /\ move_history[s] = board[s].stack
             /\ IsPrefix(move_history[s], last'[s].moves)
             /\ AllLegal(board[s], SubSeq(last'[s].moves, Len(move_history[s]) + 1,
                                          Len(last'[s].moves))))
            => /\ PosAfterApply(s)'.stack = last'[s].moves
               /\ HistoryAfterApply(s)' = last'[s].moves]_vars

\* C19, witness: a gameState event has brought the second move in, the make_move
\* of the bot's answer has failed, and the position holds the two moves of the feed
\* and nothing more
C19_Witness ==
    \E s \in Games :
        /\ last[s].type = "gameState" /\ last[s].applied = 1
        /\ Len(last[s].moves) = 2
        /\ last[s].called /\ ~last[s].ok
        /\ board[s].stack = last[s].moves
        /\ move_history[s] = last[s].moves

\* C20: whatever events the feed sends, repeated and replayed ones included, no two
\* make_move calls succeed in the same turn of the bot, that is at the same number
\* of moves on the position.
C20_OneMovePerTurn ==
    \A s \in Games : dispatched[s].again = {}

====
